---- MODULE Spec2Model ----
(***************************************************************************)
(* Model of src/error.rs: the TopiaryError taxonomy, its Display           *)
(* rendering (fmt), its one-level cause accessor (source) and the five     *)
(* From conversions.  An error value is built once, may be boxed into      *)
(* Formatting, is rendered and has its cause chain walked.                 *)
(***************************************************************************)
EXTENDS Naturals, Sequences, FiniteSets

VARIABLES
    err,      \* Option<TopiaryError>: the error value that is propagating
    op,       \* the operation that built the current value of err
    input,    \* the cause handed to that operation (None when it takes none)
    out,      \* Option<(value, text)>: the last value rendered and its text
    chain,    \* the values visited by the walk of the cause chain, in order
    ended     \* TRUE once source() has returned None to the walk

vars == <<err, op, input, out, chain, ended>>

(***************************************************************************)
(* Bounds of the model.                                                    *)
(***************************************************************************)
MaxDepth == 2      \* Formatting wrappers around one value
MaxPos == 2        \* line and column numbers are PosStride * (0..MaxPos)
PosStride == 7

(***************************************************************************)
(* Option<T>                                                               *)
(***************************************************************************)
None == [tag |-> "None"]
Some(v) == [tag |-> "Some", val |-> v]

(***************************************************************************)
(* Foreign failures (std, tree_sitter, git2, libloading).  Each is an      *)
(* opaque value of its own type with the text its Display produces.        *)
(***************************************************************************)
Foreign(type, text) == [foreign |-> type, text |-> text]

IoErrors ==
    { Foreign("io::Error", "No such file or directory (os error 2)"),
      Foreign("io::Error", "Broken pipe (os error 32)") }
Utf8Errors ==
    { Foreign("str::Utf8Error", "invalid utf-8 sequence of 1 bytes from index 0"),
      Foreign("str::Utf8Error", "incomplete utf-8 byte sequence from index 3") }
FromUtf8Errors ==
    { Foreign("string::FromUtf8Error", "invalid utf-8 sequence of 1 bytes from index 2") }
IntoInnerErrors ==
    { Foreign("io::IntoInnerError", "Broken pipe (os error 32)") }
FmtErrors ==
    { Foreign("fmt::Error", "an error occurred when formatting an argument") }
QueryErrors ==
    { Foreign("tree_sitter::QueryError", "Query error at 1:2. Invalid node type foo") }
GitErrors ==
    { Foreign("git2::Error", "failed to resolve address for github.com") }
LibloadingErrors ==
    { Foreign("libloading::Error", "libtree-sitter-json.so: cannot open shared object file") }

IsForeign(v) == "foreign" \in DOMAIN v
IsTaxonomy(v) == "tag" \in DOMAIN v

(***************************************************************************)
(* The taxonomy: enum TopiaryError and its three sub-enums.                *)
(***************************************************************************)
ReadingError_Io(message, e) == [sub |-> "Io", message |-> message, source |-> e]
ReadingError_Utf8(e) == [sub |-> "Utf8", source |-> e]

WritingError_Fmt(e) == [sub |-> "Fmt", source |-> e]
WritingError_IntoInner(e) == [sub |-> "IntoInner", source |-> e]
WritingError_Io(e) == [sub |-> "Io", source |-> e]
WritingError_FromUtf8(e) == [sub |-> "FromUtf8", source |-> e]

ParserCompilationError_Io(e) == [sub |-> "Io", source |-> e]
ParserCompilationError_Cc(o, e) == [sub |-> "Cc", out |-> o, err |-> e]

Formatting(e) == [tag |-> "Formatting", inner |-> e]
Idempotence == [tag |-> "Idempotence"]
Internal(message, source) == [tag |-> "Internal", message |-> message, source |-> source]
Parsing(sl, sc, el, ec) ==
    [tag |-> "Parsing", start_line |-> sl, start_column |-> sc,
     end_line |-> el, end_column |-> ec]
Query(message, source) == [tag |-> "Query", message |-> message, source |-> source]
LanguageDetection(filename, extension) ==
    [tag |-> "LanguageDetection", filename |-> filename, extension |-> extension]
Reading(r) == [tag |-> "Reading", inner |-> r]
Writing(w) == [tag |-> "Writing", inner |-> w]
Git(e) == [tag |-> "Git", source |-> e]
ParserLoading(e) == [tag |-> "ParserLoading", source |-> e]
ParserCompilation(p) == [tag |-> "ParserCompilation", inner |-> p]

(***************************************************************************)
(* Display of the payloads that fmt interpolates.                          *)
(***************************************************************************)
Digit(d) ==
    CASE d = 0 -> "0" [] d = 1 -> "1" [] d = 2 -> "2" [] d = 3 -> "3"
      [] d = 4 -> "4" [] d = 5 -> "5" [] d = 6 -> "6" [] d = 7 -> "7"
      [] d = 8 -> "8" [] d = 9 -> "9"

\* {start_line} etc.: a usize is written in decimal, no sign, no padding.
RECURSIVE usize_to_string(_)
usize_to_string(n) ==
    IF n < 10 THEN Digit(n) ELSE usize_to_string(n \div 10) \o Digit(n % 10)

\* An OsString is a sequence of units; a unit that is not valid Unicode is
\* INVALID_UNIT, and to_string_lossy writes U+FFFD in its place.
INVALID_UNIT == "<invalid>"
REPLACEMENT_CHARACTER == "\\u{FFFD}"

RECURSIVE to_string_lossy(_)
to_string_lossy(os) ==
    IF os = <<>> THEN ""
    ELSE (IF Head(os) = INVALID_UNIT THEN REPLACEMENT_CHARACTER ELSE Head(os))
         \o to_string_lossy(Tail(os))

\* {err} of a foreign failure is that failure's own Display text.
foreign_to_string(e) == e.text

(***************************************************************************)
(* impl fmt::Display for TopiaryError                                      *)
(***************************************************************************)
please_log_message ==
    "It would be helpful if you logged this error at https://github.com/tweag/topiary/issues/new?assignees=&labels=type%3A+bug&template=bug_report.md"

fmt_Idempotence ==
    "The formatter did not produce the same result when invoked twice (idempotence check).\n"
    \o please_log_message

\* fmt_Parsing with line and column exchanged.
fmt_Parsing_Swapped(e) ==
    "Parsing error between line " \o usize_to_string(e.start_column)
    \o ", column " \o usize_to_string(e.start_line)
    \o " and line " \o usize_to_string(e.end_column)
    \o ", column " \o usize_to_string(e.end_line)

fmt_Parsing(e) ==
    "Parsing error between line " \o usize_to_string(e.start_line)
    \o ", column " \o usize_to_string(e.start_column)
    \o " and line " \o usize_to_string(e.end_line)
    \o ", column " \o usize_to_string(e.end_column)

fmt_Reading(r) ==
    IF r.sub = "Io" THEN r.message ELSE "Input is not UTF8"

\* fmt_Writing with the cause appended.
fmt_Writing_WithCause(w) == "Writing error: " \o foreign_to_string(w.source)

fmt_Writing(w) == "Writing error"

\* fmt_Internal_Query with the cause, when present, appended.
fmt_Internal_Query_WithCause(e) ==
    IF e.source.tag = "Some"
    THEN e.message \o ": " \o foreign_to_string(e.source.val)
    ELSE e.message

fmt_Internal_Query(e) == e.message

\* fmt_file without the arm for "-".
fmt_file_PrefixOnly(filename) == "of file '" \o filename \o "'"

fmt_file(filename) ==
    IF filename = "-" THEN "from standard input"
    ELSE "of file '" \o filename \o "'"

fmt_LanguageDetection(e) ==
    LET file == fmt_file(e.filename) IN
    IF e.extension.tag = "Some"
    THEN "Cannot detect language " \o file \o " due to unknown extension '."
         \o to_string_lossy(e.extension.val)
         \o "'. Try specifying language explicitly."
    ELSE "Cannot detect language " \o file
         \o ". Try specifying language explicitly."

fmt_Formatting(inner) ==
    "The formatter errored when trying to format the code twice (idempotence check).\n"
    \o "This probably means that the formatter produced invalid code.\n"
    \o please_log_message

fmt_Git(e) ==
    "The formatter errored when trying to fetch a grammar from git. See the following message: "
    \o foreign_to_string(e)

fmt_ParserLoading(e) ==
    "The formatter errored when trying load the parser dynamic library: "
    \o foreign_to_string(e)

\* fmt_ParserCompilation with out and err exchanged.
fmt_ParserCompilation_Swapped(p) ==
    IF p.sub = "Io"
    THEN "The formatter ran into an IO error when compiling a Parser: "
         \o foreign_to_string(p.source)
    ELSE "The formatter ran into an error when compiling a Parser. Output from the CC subprocess: "
         \o p.err \o " " \o p.out

fmt_ParserCompilation(p) ==
    IF p.sub = "Io"
    THEN "The formatter ran into an IO error when compiling a Parser: "
         \o foreign_to_string(p.source)
    ELSE "The formatter ran into an error when compiling a Parser. Output from the CC subprocess: "
         \o p.out \o " " \o p.err

fmt(e) ==
    CASE e.tag = "Idempotence" -> fmt_Idempotence
      [] e.tag = "Parsing" -> fmt_Parsing(e)
      [] e.tag = "Reading" -> fmt_Reading(e.inner)
      [] e.tag = "Writing" -> fmt_Writing(e.inner)
      [] e.tag \in {"Internal", "Query"} -> fmt_Internal_Query(e)
      [] e.tag = "LanguageDetection" -> fmt_LanguageDetection(e)
      [] e.tag = "Formatting" -> fmt_Formatting(e.inner)
      [] e.tag = "Git" -> fmt_Git(e.source)
      [] e.tag = "ParserLoading" -> fmt_ParserLoading(e.source)
      [] e.tag = "ParserCompilation" -> fmt_ParserCompilation(e.inner)

(***************************************************************************)
(* impl Error for TopiaryError: source, one level of the cause chain.      *)
(***************************************************************************)
\* source_optional that never exposes the optional cause.
source_optional_Dropped(s) == None

\* source.as_ref().map(|e| e as &dyn Error)
source_optional(s) == IF s.tag = "Some" THEN Some(s.val) ELSE None

\* source_Formatting that skips a nested Formatting.
source_Formatting_Flattened(inner) ==
    IF IsTaxonomy(inner) /\ inner.tag = "Formatting" THEN Some(inner.inner)
    ELSE Some(inner)

\* source_Formatting that exposes no cause.
source_Formatting_Dropped(inner) == None

\* Self::Formatting(err) => Some(err)
source_Formatting(inner) == Some(inner)

\* source_Writing that returns the value itself as its cause.
source_Writing_Self(e) == Some(e)

\* The four Self::Writing(WritingError::_(source)) => Some(source) arms.
source_Writing(e) ==
    CASE e.inner.sub = "Fmt" -> Some(e.inner.source)
      [] e.inner.sub = "FromUtf8" -> Some(e.inner.source)
      [] e.inner.sub = "IntoInner" -> Some(e.inner.source)
      [] e.inner.sub = "Io" -> Some(e.inner.source)

source(e) ==
    CASE e.tag = "Idempotence" -> None
      [] e.tag = "Internal" -> source_optional(e.source)
      [] e.tag = "Parsing" -> None
      [] e.tag = "Query" -> source_optional(e.source)
      [] e.tag = "LanguageDetection" -> None
      [] e.tag = "Reading" /\ e.inner.sub = "Io" -> Some(e.inner.source)
      [] e.tag = "Reading" /\ e.inner.sub = "Utf8" -> Some(e.inner.source)
      [] e.tag = "Writing" -> source_Writing(e)
      [] e.tag = "Formatting" -> source_Formatting(e.inner)
      [] e.tag = "Git" -> Some(e.source)
      [] e.tag = "ParserLoading" -> Some(e.source)
      [] e.tag = "ParserCompilation" /\ e.inner.sub = "Io" -> Some(e.inner.source)
      [] e.tag = "ParserCompilation" /\ e.inner.sub = "Cc" -> None

(***************************************************************************)
(* impl From<...> for TopiaryError                                         *)
(***************************************************************************)
from_Utf8Error(e) == Reading(ReadingError_Utf8(e))

\* from_io_Error that classifies the failure as a read failure.
from_io_Error_AsReading(e) == Reading(ReadingError_Io("", e))

from_io_Error(e) == Writing(WritingError_Io(e))

from_FromUtf8Error(e) == Writing(WritingError_FromUtf8(e))

from_IntoInnerError(e) == Writing(WritingError_IntoInner(e))

from_fmt_Error(e) == Writing(WritingError_Fmt(e))

(***************************************************************************)
(* Inputs of the constructions.                                            *)
(***************************************************************************)
Messages == {"", "Could not read file foo.json", "Query error"}
Filenames == {"-", "--", "foo.xyz", "Makefile"}
Extensions == {<<"x", "y", "z">>, <<"-">>, <<"x", INVALID_UNIT>>}
CcOutputs == {"", "cc: warning", "parser.c: error"}
\* 1 and 5 are the positions of the documented example Parsing{1,1,1,5}.
Positions == {p * PosStride : p \in 0..MaxPos} \cup {1, 5}

OptionOf(S) == {None} \cup {Some(x) : x \in S}

\* Number of Formatting boxes around the innermost value.
RECURSIVE Depth(_)
Depth(e) == IF e.tag = "Formatting" THEN 1 + Depth(e.inner) ELSE 0

Last(s) == s[Len(s)]

(***************************************************************************)
(* The state machine.                                                      *)
(***************************************************************************)
Init ==
    /\ err = None
    /\ op = "none"
    /\ input = None
    /\ out = None
    /\ chain = <<>>
    /\ ended = FALSE

\* Each construction below builds the value at the point the failure is
\* detected: there is no error value before it.
ConvertUtf8Error ==
    \E e \in Utf8Errors :
        /\ err = None
        /\ err' = Some(from_Utf8Error(e))
        /\ op' = "from_Utf8Error"
        /\ input' = Some(e)
        /\ UNCHANGED <<out, chain, ended>>

ConvertIoError ==
    \E e \in IoErrors :
        /\ err = None
        /\ err' = Some(from_io_Error(e))
        /\ op' = "from_io_Error"
        /\ input' = Some(e)
        /\ UNCHANGED <<out, chain, ended>>

ConvertFromUtf8Error ==
    \E e \in FromUtf8Errors :
        /\ err = None
        /\ err' = Some(from_FromUtf8Error(e))
        /\ op' = "from_FromUtf8Error"
        /\ input' = Some(e)
        /\ UNCHANGED <<out, chain, ended>>

ConvertIntoInnerError ==
    \E e \in IntoInnerErrors :
        /\ err = None
        /\ err' = Some(from_IntoInnerError(e))
        /\ op' = "from_IntoInnerError"
        /\ input' = Some(e)
        /\ UNCHANGED <<out, chain, ended>>

ConvertFmtError ==
    \E e \in FmtErrors :
        /\ err = None
        /\ err' = Some(from_fmt_Error(e))
        /\ op' = "from_fmt_Error"
        /\ input' = Some(e)
        /\ UNCHANGED <<out, chain, ended>>

NewIdempotence ==
    /\ err = None
    /\ err' = Some(Idempotence)
    /\ op' = "Idempotence"
    /\ input' = None
    /\ UNCHANGED <<out, chain, ended>>

NewInternal ==
    \E m \in Messages, s \in OptionOf(IoErrors) :
        /\ err = None
        /\ err' = Some(Internal(m, s))
        /\ op' = "Internal"
        /\ input' = s
        /\ UNCHANGED <<out, chain, ended>>

NewParsing ==
    \E sl \in Positions, sc \in Positions, el \in Positions, ec \in Positions :
        /\ err = None
        /\ err' = Some(Parsing(sl, sc, el, ec))
        /\ op' = "Parsing"
        /\ input' = None
        /\ UNCHANGED <<out, chain, ended>>

NewQuery ==
    \E m \in Messages, s \in OptionOf(QueryErrors) :
        /\ err = None
        /\ err' = Some(Query(m, s))
        /\ op' = "Query"
        /\ input' = s
        /\ UNCHANGED <<out, chain, ended>>

NewLanguageDetection ==
    \E f \in Filenames, x \in OptionOf(Extensions) :
        /\ err = None
        /\ err' = Some(LanguageDetection(f, x))
        /\ op' = "LanguageDetection"
        /\ input' = None
        /\ UNCHANGED <<out, chain, ended>>

NewReadingIo ==
    \E m \in Messages, e \in IoErrors :
        /\ err = None
        /\ err' = Some(Reading(ReadingError_Io(m, e)))
        /\ op' = "Reading"
        /\ input' = Some(e)
        /\ UNCHANGED <<out, chain, ended>>

NewGit == \E e \in GitErrors :
        /\ err = None
        /\ err' = Some(Git(e))
        /\ op' = "Git"
        /\ input' = Some(e)
        /\ UNCHANGED <<out, chain, ended>>

NewParserLoading ==
    \E e \in LibloadingErrors :
        /\ err = None
        /\ err' = Some(ParserLoading(e))
        /\ op' = "ParserLoading"
        /\ input' = Some(e)
        /\ UNCHANGED <<out, chain, ended>>

NewParserCompilationIo ==
    \E e \in IoErrors :
        /\ err = None
        /\ err' = Some(ParserCompilation(ParserCompilationError_Io(e)))
        /\ op' = "ParserCompilation"
        /\ input' = Some(e)
        /\ UNCHANGED <<out, chain, ended>>

NewParserCompilationCc ==
    \E o \in CcOutputs, e \in CcOutputs :
        /\ err = None
        /\ err' = Some(ParserCompilation(ParserCompilationError_Cc(o, e)))
        /\ op' = "ParserCompilation"
        /\ input' = None
        /\ UNCHANGED <<out, chain, ended>>

\* The propagating value is boxed into Formatting by the layer above.
WrapFormatting ==
    /\ err.tag = "Some"
    /\ Depth(err.val) < MaxDepth
    /\ err' = Some(Formatting(err.val))
    /\ op' = "Formatting"
    /\ input' = Some(err.val)
    /\ UNCHANGED <<out, chain, ended>>

\* to_string() of the propagating value.
Display ==
    /\ err.tag = "Some"
    /\ out' = Some([self |-> err.val, text |-> fmt(err.val)])
    /\ UNCHANGED <<err, op, input, chain, ended>>

\* A caller starts walking the cause chain at the propagating value.
WalkStart ==
    /\ err.tag = "Some"
    /\ IF chain = <<>> THEN TRUE ELSE chain[1] # err.val
    /\ chain' = <<err.val>>
    /\ ended' = FALSE
    /\ UNCHANGED <<err, op, input, out>>

\* One call of source() on the taxonomy value the walk stands on.
WalkStep ==
    /\ chain # <<>>
    /\ ~ended
    /\ IsTaxonomy(Last(chain))
    /\ LET s == source(Last(chain)) IN
        IF s.tag = "Some"
        THEN chain' = Append(chain, s.val) /\ UNCHANGED ended
        ELSE ended' = TRUE /\ UNCHANGED chain
    /\ UNCHANGED <<err, op, input, out>>

Next ==
    \/ ConvertUtf8Error
    \/ ConvertIoError
    \/ ConvertFromUtf8Error
    \/ ConvertIntoInnerError
    \/ ConvertFmtError
    \/ NewIdempotence
    \/ NewInternal
    \/ NewParsing
    \/ NewQuery
    \/ NewLanguageDetection
    \/ NewReadingIo
    \/ NewGit
    \/ NewParserLoading
    \/ NewParserCompilationIo
    \/ NewParserCompilationCc
    \/ WrapFormatting
    \/ Display
    \/ WalkStart
    \/ WalkStep

Spec == Init /\ [][Next]_vars

(***************************************************************************)
(* Properties.                                                             *)
(***************************************************************************)
Rendered == out.tag = "Some"
Walked == chain # <<>> /\ (ended \/ Len(chain) >= 2)
HasCause == Len(chain) >= 2

\* The value built is variant(sub(e)) for the failure e that was given, and
\* holds nothing else.
C1_Shape(variant, sub) ==
    /\ input.tag = "Some"
    /\ IsForeign(input.val)
    /\ DOMAIN err.val = {"tag", "inner"}
    /\ err.val.tag = variant
    /\ DOMAIN err.val.inner = {"sub", "source"}
    /\ err.val.inner.sub = sub
    /\ err.val.inner.source = input.val

\* C1: each of the five conversions yields exactly one fixed variant and
\* sub-variant, with the foreign failure it was given as the only payload:
\* Utf8Error -> Reading(Utf8(e)), io::Error -> Writing(Io(e)) and never
\* Reading, FromUtf8Error -> Writing(FromUtf8(e)), IntoInnerError ->
\* Writing(IntoInner(e)), fmt::Error -> Writing(Fmt(e)); and each conversion
\* is defined on every failure of its type.
C1_ConversionsFixed ==
    /\ op = "from_Utf8Error" => C1_Shape("Reading", "Utf8")
    /\ op = "from_io_Error" => C1_Shape("Writing", "Io")
    /\ op = "from_FromUtf8Error" => C1_Shape("Writing", "FromUtf8")
    /\ op = "from_IntoInnerError" => C1_Shape("Writing", "IntoInner")
    /\ op = "from_fmt_Error" => C1_Shape("Writing", "Fmt")
    /\ \A e \in Utf8Errors : IsTaxonomy(from_Utf8Error(e))
    /\ \A e \in IoErrors : IsTaxonomy(from_io_Error(e))
    /\ \A e \in FromUtf8Errors : IsTaxonomy(from_FromUtf8Error(e))
    /\ \A e \in IntoInnerErrors : IsTaxonomy(from_IntoInnerError(e))
    /\ \A e \in FmtErrors : IsTaxonomy(from_fmt_Error(e))

C1_Witness ==
    /\ op = "from_io_Error"
    /\ err.tag = "Some"
    /\ err.val.tag = "Writing"
    /\ input.val \in IoErrors

\* C2: once source() has been called on a value, it has returned a cause
\* never for Idempotence, Parsing, LanguageDetection and
\* ParserCompilation::Cc; for Internal and Query exactly when the optional
\* wrapped failure is present; and always for Reading, Writing, Formatting,
\* Git, ParserLoading and ParserCompilation::Io.
C2_CausePresence ==
    Walked =>
        LET e == chain[1] IN
        CASE e.tag \in {"Idempotence", "Parsing", "LanguageDetection"} -> ~HasCause
          [] e.tag \in {"Internal", "Query"} -> (HasCause <=> e.source.tag = "Some")
          [] e.tag \in {"Reading", "Writing", "Formatting", "Git", "ParserLoading"} ->
                HasCause
          [] e.tag = "ParserCompilation" -> (HasCause <=> e.inner.sub = "Io")

C2_Witness ==
    /\ Walked
    /\ chain[1].tag = "Internal"
    /\ chain[1].source.tag = "Some"
    /\ HasCause

\* C3: the cause that source() exposes is exactly the value that was wrapped
\* when the value was built: the foreign failure given to a conversion or a
\* constructor, or the error boxed into Formatting; in particular the cause
\* of Formatting(Idempotence) is Idempotence.
C3_CauseIsWrappedValue ==
    /\ (HasCause /\ err = Some(chain[1])) => input = Some(chain[2])
    /\ (HasCause /\ chain[1] = Formatting(Idempotence)) => chain[2] = Idempotence
    /\ \A i \in 1..(Len(chain) - 1) :
          (IsTaxonomy(chain[i]) /\ chain[i].tag = "Formatting") => chain[i + 1] = chain[i].inner

C3_Witness ==
    /\ HasCause
    /\ err = Some(chain[1])
    /\ Depth(chain[1]) = 2
    /\ op = "Formatting"

\* The source phrase the message is expected to carry.
C4_Phrase(filename) ==
    IF filename = "-" THEN "from standard input" ELSE "of file '" \o filename \o "'"

\* C4: a LanguageDetection value renders "from standard input" exactly when
\* the filename is "-" and "of file '<filename>'" otherwise, and,
\* independently, the wording with "due to unknown extension '.<ext>'"
\* exactly when the extension is present; every message ends with "Try
\* specifying language explicitly."
C4_LanguageDetectionText ==
    (Rendered /\ out.val.self.tag = "LanguageDetection") =>
        LET e == out.val.self IN
        /\ e.extension.tag = "Some" =>
              out.val.text = "Cannot detect language " \o C4_Phrase(e.filename)
                  \o " due to unknown extension '." \o to_string_lossy(e.extension.val)
                  \o "'. Try specifying language explicitly."
        /\ e.extension.tag = "None" =>
              out.val.text = "Cannot detect language " \o C4_Phrase(e.filename)
                  \o ". Try specifying language explicitly."
        /\ e = LanguageDetection("-", None) =>
              out.val.text = "Cannot detect language from standard input. Try specifying language explicitly."
        /\ e = LanguageDetection("foo.xyz", Some(<<"x", "y", "z">>)) =>
              out.val.text = "Cannot detect language of file 'foo.xyz' due to unknown extension '.xyz'. Try specifying language explicitly."
        /\ e = LanguageDetection("-", Some(<<"x", "y", "z">>)) =>
              out.val.text = "Cannot detect language from standard input due to unknown extension '.xyz'. Try specifying language explicitly."

C4_Witness ==
    /\ Rendered
    /\ out.val.self = LanguageDetection("-", Some(<<"x", "y", "z">>))

\* The one text every Formatting value is expected to render.
C5_FormattingText ==
    "The formatter errored when trying to format the code twice (idempotence check).\nThis probably means that the formatter produced invalid code.\nIt would be helpful if you logged this error at https://github.com/tweag/topiary/issues/new?assignees=&labels=type%3A+bug&template=bug_report.md"

\* C5: the text of a wrapping variant does not depend on what it wraps:
\* every Writing value renders "Writing error", every Formatting value
\* renders the same fixed text, every Reading(Utf8(_)) renders "Input is not
\* UTF8"; so a converted io::Error always renders "Writing error".
C5_TextIgnoresCause ==
    Rendered =>
        LET e == out.val.self IN
        /\ e.tag = "Writing" => out.val.text = "Writing error"
        /\ e.tag = "Formatting" => out.val.text = C5_FormattingText
        /\ (e.tag = "Reading" /\ e.inner.sub = "Utf8") => out.val.text = "Input is not UTF8"
        /\ (op = "from_io_Error" /\ err = Some(e)) => out.val.text = "Writing error"

C5_Witness ==
    /\ Rendered
    /\ op = "from_io_Error"
    /\ err = Some(out.val.self)

\* C6: Reading(Io(message, cause)), Internal(message, cause) and
\* Query(message, cause) render exactly the message given at construction,
\* with nothing added, whether or not a cause is present and whatever the
\* cause's own text is.
C6_MessageVerbatim ==
    Rendered =>
        LET e == out.val.self IN
        /\ (e.tag = "Reading" /\ e.inner.sub = "Io") => out.val.text = e.inner.message
        /\ e.tag \in {"Internal", "Query"} => out.val.text = e.message

C6_Witness ==
    /\ Rendered
    /\ out.val.self.tag = "Internal"
    /\ out.val.self.source.tag = "Some"
    /\ out.val.self.message = "Could not read file foo.json"

\* C7: ParserCompilation(Cc(out, err)) renders the fixed prefix, then out, one
\* space, then err, for every pair of strings, empty ones included;
\* ParserCompilation(Io(e)) renders the other prefix followed by e's text.
C7_ParserCompilationText ==
    (Rendered /\ out.val.self.tag = "ParserCompilation") =>
        LET p == out.val.self.inner IN
        /\ p.sub = "Cc" =>
              out.val.text = "The formatter ran into an error when compiling a Parser. Output from the CC subprocess: "
                  \o p.out \o " " \o p.err
        /\ p.sub = "Io" =>
              out.val.text = "The formatter ran into an IO error when compiling a Parser: "
                  \o p.source.text
        /\ p = ParserCompilationError_Cc("", "parser.c: error") =>
              out.val.text = "The formatter ran into an error when compiling a Parser. Output from the CC subprocess:  parser.c: error"

C7_Witness ==
    /\ Rendered
    /\ out.val.self = ParserCompilation(ParserCompilationError_Cc("", "parser.c: error"))

\* The end of the span is not before its start, line-major then column.
WellFormedSpan(e) ==
    \/ e.end_line > e.start_line
    \/ e.end_line = e.start_line /\ e.end_column >= e.start_column

\* C8 as stated: every Parsing value that can be built has a well-formed span.
C8_SpanAlwaysWellFormed ==
    (err.tag = "Some" /\ err.val.tag = "Parsing") => WellFormedSpan(err.val)

\* C8: a Parsing value can be built from any four non-negative integers, the
\* span's end before its start included, and rendering any Parsing value
\* prints the four numbers in decimal in the order start_line, start_column,
\* end_line, end_column.
C8_ParsingTextInOrder ==
    (Rendered /\ out.val.self.tag = "Parsing") =>
        LET e == out.val.self IN
        /\ out.val.text = "Parsing error between line " \o usize_to_string(e.start_line)
              \o ", column " \o usize_to_string(e.start_column)
              \o " and line " \o usize_to_string(e.end_line)
              \o ", column " \o usize_to_string(e.end_column)
        /\ e = Parsing(1, 1, 1, 5) =>
              out.val.text = "Parsing error between line 1, column 1 and line 1, column 5"
        /\ e = Parsing(5, 1, 1, 0) =>
              out.val.text = "Parsing error between line 5, column 1 and line 1, column 0"

C8_Witness ==
    /\ Rendered
    /\ out.val.self.tag = "Parsing"
    /\ ~WellFormedSpan(out.val.self)

\* C9 as stated: no value is ever wrapped by more than one Formatting.
C9_AtMostOneWrapper ==
    err.tag = "Some" => Depth(err.val) <= 1

\* The sub-enum of a Reading, Writing or ParserCompilation value holds no
\* taxonomy value: only strings and foreign failures.
SubTaxonomyIsLeaf(e) ==
    e.tag \in {"Reading", "Writing", "ParserCompilation"} =>
        /\ "sub" \in DOMAIN e.inner
        /\ "tag" \notin DOMAIN e.inner
        /\ "source" \in DOMAIN e.inner => IsForeign(e.inner.source)

\* C9: Formatting is the only variant that encloses another taxonomy value
\* and the sub-taxonomies are nested exactly one level deep; Formatting may
\* enclose any taxonomy value, another Formatting included, and each wrap
\* adds exactly one level.
C9_OnlyFormattingEncloses ==
    /\ \A i \in 1..Len(chain) :
          IsTaxonomy(chain[i]) =>
              /\ SubTaxonomyIsLeaf(chain[i])
              /\ (i < Len(chain) /\ IsTaxonomy(chain[i + 1])) => chain[i].tag = "Formatting"
    /\ op = "Formatting" =>
          /\ err.val.inner = input.val
          /\ Depth(err.val) = Depth(input.val) + 1

C9_Witness ==
    /\ err.tag = "Some"
    /\ Depth(err.val) = 2
    /\ chain # <<>>
    /\ chain[1] = err.val
    /\ Len(chain) >= 3

\* C10: a walk of the cause chain from a value under d Formatting wrappers
\* passes d Formatting values, reaches the value with no taxonomy cause at
\* position d + 1, goes at most one step further, to a foreign failure, and
\* never visits a value twice.
C10_WalkTerminates ==
    chain # <<>> =>
        LET d == Depth(chain[1]) IN
        /\ Len(chain) <= d + 2
        /\ \A i \in 1..Len(chain) :
              /\ i <= d => (IsTaxonomy(chain[i]) /\ chain[i].tag = "Formatting")
              /\ i = d + 1 => (IsTaxonomy(chain[i]) /\ chain[i].tag # "Formatting")
              /\ i = d + 2 => IsForeign(chain[i])
        /\ ended => Len(chain) = d + 1
        /\ \A i \in 1..Len(chain) : \A j \in 1..Len(chain) : i # j => chain[i] # chain[j]

C10_Witness ==
    /\ chain # <<>>
    /\ Depth(chain[1]) = 2
    /\ Len(chain) = 4
    /\ IsForeign(chain[4])

====
